---- MODULE Spec2Model ----
(***************************************************************************)
(* The circuit  constant * (a*a + b*c) = d  of src/main.rs: the chip       *)
(* operations, the gates declared by configure, the synthesize sequence,   *)
(* and the table / layouter / verifier they run against.                   *)
(***************************************************************************)
EXTENDS Integers, Sequences, FiniteSets, TLC

(* ------------------------------ bounds --------------------------------- *)

\* Order of the ring the field F is scaled down to (F is a type parameter of
\* MyChip and MyCircuit; main instantiates it with pasta::Fp).
FieldModulus == 251

\* Witnesses and constants range over 0..MaxVal and the values main uses.
MaxVal == 1

\* The row-capacity exponents tried are MainK - KRange .. MainK.
KRange == 2

(* ------------------------ constants of main ---------------------------- *)

MainA == 10

MainB == 5

MainC == 3

MainConstant == 2

\* A run with too small a table.
MainKSmall == 2 + 1

MainK == 5

(* ------------------------------ field ---------------------------------- *)

F == 0 .. (FieldModulus - 1)

FAdd(x, y) == (x + y) % FieldModulus

FSub(x, y) == ((x - y) + FieldModulus) % FieldModulus

FMul(x, y) == (x * y) % FieldModulus

\* F::from(n)
FFrom(n) == n % FieldModulus

(* --------------------------- Value<F> ---------------------------------- *)

\* Value::unknown() is the empty tuple, Value::known(v) the 1-tuple <<v>>.
Unknown == << >>

Known(v) == <<v>>

IsKnown(x) == Len(x) = 1

\* What a value closure yields when it demands the concrete value of an
\* Unknown: the assignment that receives it fails with the Synthesis error.
ReadOfUnknown == <<0, 0>>

ValueOf(S) == {Unknown} \cup {Known(v) : v \in S}

(* ------------------------ columns and cells ---------------------------- *)

Cell(col, row) == <<col, row>>

RECURSIVE Pow2(_)
Pow2(n) == IF n = 0 THEN 1 ELSE 2 * Pow2(n - 1)

Max(x, y) == IF x >= y THEN x ELSE y

(* ------------------- gate expressions (configure) ---------------------- *)

QueryAdvice(col, rot) == [t |-> "advice", col |-> col, rot |-> rot]

QuerySelector(sel) == [t |-> "selector", sel |-> sel]

Product(l, r) == [t |-> "product", l |-> l, r |-> r]

Sum(l, r) == [t |-> "sum", l |-> l, r |-> r]

Diff(l, r) == [t |-> "diff", l |-> l, r |-> r]

RotationCur == 0

RotationNext == 1

\* MyConfig: the two advice columns, the instance column, the two selectors.
MyConfig ==
  [advice |-> <<"advice0", "advice1">>, instance |-> "instance",
   s_mul |-> "s_mul", s_add |-> "s_add"]

\* A copy-paste slip: the mul gate written with the add gate's identity.
MulGateAsSum ==
  LET lhs == QueryAdvice(MyConfig.advice[1], RotationCur)
      rhs == QueryAdvice(MyConfig.advice[2], RotationCur)
      out == QueryAdvice(MyConfig.advice[1], RotationNext)
      s_mul == QuerySelector(MyConfig.s_mul)
  IN [name |-> "mul", polys |-> << Product(Diff(Sum(lhs, rhs), out), s_mul) >>]

\* meta.create_gate("mul", ...): (lhs * rhs - out) * s_mul
MulGate ==
  LET lhs == QueryAdvice(MyConfig.advice[1], RotationCur)
      rhs == QueryAdvice(MyConfig.advice[2], RotationCur)
      out == QueryAdvice(MyConfig.advice[1], RotationNext)
      s_mul == QuerySelector(MyConfig.s_mul)
  IN [name |-> "mul", polys |-> << Product(Diff(Product(lhs, rhs), out), s_mul) >>]

\* The add gate reading its output at the current row instead of the next.
AddGateOutCur ==
  LET lhs == QueryAdvice(MyConfig.advice[1], RotationCur)
      rhs == QueryAdvice(MyConfig.advice[2], RotationCur)
      out == QueryAdvice(MyConfig.advice[1], RotationCur)
      s_add == QuerySelector(MyConfig.s_add)
  IN [name |-> "add", polys |-> << Product(Diff(Sum(lhs, rhs), out), s_add) >>]

\* meta.create_gate("add", ...): (lhs + rhs - out) * s_add
AddGate ==
  LET lhs == QueryAdvice(MyConfig.advice[1], RotationCur)
      rhs == QueryAdvice(MyConfig.advice[2], RotationCur)
      out == QueryAdvice(MyConfig.advice[1], RotationNext)
      s_add == QuerySelector(MyConfig.s_add)
  IN [name |-> "add", polys |-> << Product(Diff(Sum(lhs, rhs), out), s_add) >>]

\* The constraint system before configure has run.
EmptyConstraintSystem == [equality |-> {}, constants |-> {}, gates |-> << >>]

\* MyCircuit::configure: the columns on which equality is enabled, the
\* fixed column that holds constants, and the two gates.
configure ==
  [equality |-> {MyConfig.instance, "fixed", MyConfig.advice[1], MyConfig.advice[2]},
   constants |-> {"fixed"},
   gates |-> << MulGate, AddGate >>]

(* --------------------- layouter and table ------------------------------ *)

NoNumber == [cell |-> Cell("none", 0), value |-> Unknown]

\* The table of a run with 2^k rows, nothing assigned, no region placed.
\* advice maps the assigned advice cells to their values; fixed is the
\* constants column, filled from row 0; assigned logs every cell
\* assignment in order; start/rows describe the region being laid out.
EmptyLayouter(k) ==
  [k |-> k, next |-> 0, start |-> 0, rows |-> 0, regions |-> << >>,
   advice |-> << >>, fixed |-> << >>, selectors |-> {}, copies |-> {},
   assigned |-> << >>, ret |-> NoNumber, err |-> "none"]

Capacity(L) == Pow2(L.k)

Fail(L, e) == [L EXCEPT !.err = e]

\* region.assign_advice(column, offset, || to)
AssignAdvice(L, col, offset, to) ==
  LET row == L.start + offset IN
  IF L.err # "none" THEN L
  ELSE IF row >= Capacity(L) THEN Fail(L, "OutOfRows")
  ELSE IF to = ReadOfUnknown THEN Fail(L, "Synthesis")
  ELSE [L EXCEPT !.advice = (Cell(col, row) :> to) @@ @,
                 !.assigned = Append(@, Cell(col, row)),
                 !.rows = Max(@, offset + 1),
                 !.ret = [cell |-> Cell(col, row), value |-> to]]

\* region.constrain_equal(left, right)
ConstrainEqual(L, left, right) ==
  IF L.err # "none" THEN L
  ELSE [L EXCEPT !.copies = @ \cup {{left, right}}]

\* AssignedCell::copy_advice(region, column, offset): the source's value is
\* assigned to the new cell, which is constrained equal to the source cell.
CopyAdvice(L, src, col, offset) ==
  LET A == AssignAdvice(L, col, offset, src.value) IN
  IF A.err # "none" THEN A
  ELSE ConstrainEqual(A, A.ret.cell, src.cell)

\* region.assign_advice_from_constant(column, offset, constant): the advice
\* cell holds the constant, which also takes the next row of the fixed
\* column; the two cells are constrained equal.
AssignAdviceFromConstant(L, col, offset, constant) ==
  LET A == AssignAdvice(L, col, offset, Known(constant)) IN
  IF A.err # "none" THEN A
  ELSE LET frow == Len(A.fixed) IN
       IF frow >= Capacity(A) THEN Fail(A, "OutOfRows")
       ELSE [A EXCEPT !.fixed = Append(@, Known(constant)),
                      !.copies = @ \cup {{A.ret.cell, Cell("fixed", frow)}}]

\* selector.enable(region, offset)
EnableSelector(L, sel, offset) ==
  LET row == L.start + offset IN
  IF L.err # "none" THEN L
  ELSE IF row >= Capacity(L) THEN Fail(L, "OutOfRows")
  ELSE [L EXCEPT !.selectors = @ \cup {<<sel, row>>},
                 !.rows = Max(@, offset + 1)]

\* layouter.assign_region(name, body), before body runs: the region
\* starts at the first free row.
OpenRegion(L) ==
  IF L.err # "none" THEN L
  ELSE [L EXCEPT !.start = L.next, !.rows = 0]

\* layouter.assign_region(name, body), after body has run on R: the region
\* claims (largest offset used + 1) rows; an error of body is passed on.
CloseRegion(R, name) ==
  IF R.err # "none" THEN R
  ELSE [R EXCEPT !.regions = Append(@, [name |-> name, start |-> R.start,
                                         rows |-> R.rows]),
                 !.next = R.start + R.rows]

\* layouter.constrain_instance(cell, column, row)
ConstrainInstance(L, cell, col, row) ==
  ConstrainEqual(L, cell, Cell(col, row))

(* ---------------------------- MyChip ----------------------------------- *)

load_private(config, L, value) ==
  LET region == OpenRegion(L)
  IN CloseRegion(AssignAdvice(region, config.advice[1], 0, value), "load private")

load_constant(config, L, constant) ==
  LET region == OpenRegion(L)
  IN CloseRegion(AssignAdviceFromConstant(region, config.advice[1], 0, constant),
                 "load constant")

\* The product computed with + (the line copied from add and not changed).
mul_value_as_sum(a, b) ==
  IF IsKnown(a.value) /\ IsKnown(b.value)
  THEN Known(FAdd(a.value[1], b.value[1]))
  ELSE Unknown

\* The product computed from the concrete values of both inputs, demanded
\* whether or not they are Known.
mul_value_forced(a, b) ==
  IF IsKnown(a.value) /\ IsKnown(b.value)
  THEN Known(FMul(a.value[1], b.value[1]))
  ELSE ReadOfUnknown

\* a.0.value().and_then(|a| b.0.value().map(|b| *a * *b))
mul_value(a, b) ==
  IF IsKnown(a.value) /\ IsKnown(b.value)
  THEN Known(FMul(a.value[1], b.value[1]))
  ELSE Unknown

\* a.0.value().and_then(|a| b.0.value().map(|b| *a + *b))
add_value(a, b) ==
  IF IsKnown(a.value) /\ IsKnown(b.value)
  THEN Known(FAdd(a.value[1], b.value[1]))
  ELSE Unknown

\* mul with its rhs assigned as a fresh advice value instead of copied.
mul_rhs_not_copied(config, L, a, b) ==
  LET region == OpenRegion(L)
      r1 == EnableSelector(region, config.s_mul, 0)
      r2 == CopyAdvice(r1, a, config.advice[1], 0)
      r3 == AssignAdvice(r2, config.advice[2], 0, b.value)
  IN CloseRegion(AssignAdvice(r3, config.advice[1], 1, mul_value(a, b)), "mul")

\* mul with its output written at offset 0, over the copy of lhs.
mul_out_at_offset_0(config, L, a, b) ==
  LET region == OpenRegion(L)
      r1 == EnableSelector(region, config.s_mul, 0)
      r2 == CopyAdvice(r1, a, config.advice[1], 0)
      r3 == CopyAdvice(r2, b, config.advice[2], 0)
  IN CloseRegion(AssignAdvice(r3, config.advice[1], 0, mul_value(a, b)), "mul")

\* mul without the call that enables its selector.
mul_selector_not_enabled(config, L, a, b) ==
  LET region == OpenRegion(L)
      r2 == CopyAdvice(region, a, config.advice[1], 0)
      r3 == CopyAdvice(r2, b, config.advice[2], 0)
  IN CloseRegion(AssignAdvice(r3, config.advice[1], 1, mul_value(a, b)), "mul")

mul(config, L, a, b) ==
  LET region == OpenRegion(L)
      r1 == EnableSelector(region, config.s_mul, 0)
      r2 == CopyAdvice(r1, a, config.advice[1], 0)
      r3 == CopyAdvice(r2, b, config.advice[2], 0)
  IN CloseRegion(AssignAdvice(r3, config.advice[1], 1, mul_value(a, b)), "mul")

add(config, L, a, b) ==
  LET region == OpenRegion(L)
      r1 == EnableSelector(region, config.s_add, 0)
      r2 == CopyAdvice(r1, a, config.advice[1], 0)
      r3 == CopyAdvice(r2, b, config.advice[2], 0)
  IN CloseRegion(AssignAdvice(r3, config.advice[1], 1, add_value(a, b)), "add")

\* expose_public binding the cell one instance row too far.
expose_public_off_by_one(config, L, num, row) ==
  ConstrainInstance(L, num.cell, config.instance, row + 1)

expose_public(config, L, num, row) ==
  ConstrainInstance(L, num.cell, config.instance, row)

(* --------------------------- MyCircuit --------------------------------- *)

\* #[derive(Default)] struct MyCircuit: F::default() is zero and
\* Value::default() is unknown.
DefaultCircuit == [constant |-> 0, a |-> Unknown, b |-> Unknown, c |-> Unknown]

\* fn without_witnesses(&self) -> Self { Self::default() }
without_witnesses(circuit) == DefaultCircuit

\* One run of synthesize: the layouter it fills and the Numbers it holds.
NewRun(k) ==
  [layouter |-> EmptyLayouter(k),
   nums |-> [a |-> NoNumber, b |-> NoNumber, c |-> NoNumber, constant |-> NoNumber,
             aa |-> NoNumber, bc |-> NoNumber, aa_bc |-> NoNumber, d |-> NoNumber]]

\* let <name> = <chip operation>?;
Bind(run, name, L) ==
  [layouter |-> L, nums |-> [run.nums EXCEPT ![name] = L.ret]]

\* The statements of MyCircuit::synthesize, named by their namespaces.
synthesize(circuit, config, run, step) ==
  LET L == run.layouter
      n == run.nums
  IN CASE step = "load a" -> Bind(run, "a", load_private(config, L, circuit.a))
       [] step = "load b" -> Bind(run, "b", load_private(config, L, circuit.b))
       [] step = "load c" -> Bind(run, "c", load_private(config, L, circuit.c))
       [] step = "load constant" ->
            Bind(run, "constant", load_constant(config, L, circuit.constant))
       [] step = "a * a" -> Bind(run, "aa", mul(config, L, n.a, n.a))
       [] step = "b * c" -> Bind(run, "bc", mul(config, L, n.b, n.c))
       [] step = "a^2 + b*c" -> Bind(run, "aa_bc", add(config, L, n.aa, n.bc))
       [] step = "constant * (a^2 + b * c)" ->
            Bind(run, "d", mul(config, L, n.constant, n.aa_bc))
       [] step = "expose d" ->
            [run EXCEPT !.layouter = expose_public(config, L, n.d, 0)]

(* ---------------------------- verifier --------------------------------- *)

\* The instance column of the table, loaded from the public input vector.
LoadInstance(public_input) ==
  [i \in 1 .. Len(public_input) |-> Known(public_input[i])]

\* The value stored in a cell; Unknown where nothing was assigned.
CellValue(T, inst, cell) ==
  LET col == cell[1]
      row == cell[2]
  IN IF row < 0 \/ row >= Capacity(T) THEN Unknown
     ELSE IF col = "fixed"
       THEN (IF row < Len(T.fixed) THEN T.fixed[row + 1] ELSE Unknown)
     ELSE IF col = "instance"
       THEN (IF row < Len(inst) THEN inst[row + 1] ELSE Unknown)
     ELSE (IF cell \in DOMAIN T.advice THEN T.advice[cell] ELSE Unknown)

\* A gate expression at one row. A selector that is not enabled makes the
\* product it guards zero whatever the cells hold; otherwise an Unknown
\* operand makes the result Unknown.
RECURSIVE Eval(_, _, _, _)
Eval(e, T, inst, row) ==
  CASE e.t = "advice" -> CellValue(T, inst, Cell(e.col, row + e.rot))
    [] e.t = "selector" ->
         IF <<e.sel, row>> \in T.selectors THEN Known(1) ELSE Known(0)
    [] e.t = "product" ->
         LET l == Eval(e.l, T, inst, row)
             r == Eval(e.r, T, inst, row)
         IN IF \/ (e.r.t = "selector" /\ r = Known(0))
               \/ (e.l.t = "selector" /\ l = Known(0))
            THEN Known(0)
            ELSE IF IsKnown(l) /\ IsKnown(r) THEN Known(FMul(l[1], r[1]))
            ELSE Unknown
    [] e.t = "sum" ->
         LET l == Eval(e.l, T, inst, row)
             r == Eval(e.r, T, inst, row)
         IN IF IsKnown(l) /\ IsKnown(r) THEN Known(FAdd(l[1], r[1])) ELSE Unknown
    [] e.t = "diff" ->
         LET l == Eval(e.l, T, inst, row)
             r == Eval(e.r, T, inst, row)
         IN IF IsKnown(l) /\ IsKnown(r) THEN Known(FSub(l[1], r[1])) ELSE Unknown

GateViolations(cs, T, inst) ==
  {<<"gate", cs.gates[g].name, row>> :
     <<g, row>> \in {x \in (DOMAIN cs.gates) \X (0 .. (Capacity(T) - 1)) :
                      \E i \in DOMAIN cs.gates[x[1]].polys :
                         Eval(cs.gates[x[1]].polys[i], T, inst, x[2]) # Known(0)}}

\* A copy constraint is enforced when both its columns are equality-enabled.
CopyViolations(cs, T, inst) ==
  {<<"copy", pair>> :
     pair \in {p \in T.copies :
                /\ \A cell \in p : cell[1] \in cs.equality
                /\ \E x \in p, y \in p :
                      \/ ~IsKnown(CellValue(T, inst, x))
                      \/ CellValue(T, inst, x) # CellValue(T, inst, y)}}

\* Every instance row bound by expose_public must hold the public input
\* given for that row.
InstanceViolations(T, inst, public_input) ==
  {<<"instance", row>> :
     row \in {r \in {cell[2] : cell \in {x \in UNION T.copies : x[1] = "instance"}} :
               \/ r >= Len(public_input)
               \/ CellValue(T, inst, Cell("instance", r)) # Known(public_input[r + 1])}}

verify(cs, T, inst, public_input) ==
  GateViolations(cs, T, inst) \cup CopyViolations(cs, T, inst)
    \cup InstanceViolations(T, inst, public_input)

(* ------------------------- state machine ------------------------------- *)

VARIABLES
  circuit,       \* the MyCircuit given to MockProver::run
  k,             \* the row-capacity exponent given to run
  public_input,  \* the public input vector of the one instance column
  pc,            \* the statement of run / synthesize / verify to execute next
  cs,            \* the constraint system configure has built
  prover,        \* the run of circuit.synthesize
  shape,         \* the run of circuit.without_witnesses().synthesize
  instance,      \* the instance column of the prover's table
  mutated,       \* the cells whose stored value was changed after synthesis
  was,           \* the value the one changed cell held before the change
  violations     \* what verify returned

vars == <<circuit, k, public_input, pc, cs, prover, shape, instance, mutated,
          was, violations>>

\* let d = Fp::from(((u32::pow(10, 2) + 5 * 3) * 2) as u64), for any inputs
ExpectedOutput(constant, a, b, c) ==
  FFrom(FMul(constant, FAdd(FMul(a, a), FMul(b, c))))

AllKnown(crc) == IsKnown(crc.a) /\ IsKnown(crc.b) /\ IsKnown(crc.c)

Circuits ==
  [constant : (0 .. MaxVal) \cup {MainConstant},
   a : ValueOf((0 .. MaxVal) \cup {MainA}),
   b : ValueOf((0 .. MaxVal) \cup {MainB}),
   c : ValueOf((0 .. MaxVal) \cup {MainC})]

\* The public inputs tried: zero and, for a circuit with all witnesses
\* Known, its output and its output plus one.
PublicInputs(crc) ==
  {0} \cup
  (IF AllKnown(crc)
   THEN LET d == ExpectedOutput(crc.constant, crc.a[1], crc.b[1], crc.c[1])
        IN {d, FAdd(d, 1)}
   ELSE {})

Ks == (MainK - KRange) .. MainK

SynthesizeSteps ==
  <<"load a", "load b", "load c", "load constant", "a * a", "b * c",
    "a^2 + b*c", "constant * (a^2 + b * c)", "expose d">>

Init ==
  /\ circuit \in Circuits
  /\ k \in Ks
  /\ public_input \in {<<p>> : p \in PublicInputs(circuit)}
  /\ pc = "configure"
  /\ cs = EmptyConstraintSystem
  /\ prover = NewRun(k)
  /\ shape = NewRun(k)
  /\ instance = << >>
  /\ mutated = {}
  /\ was = Unknown
  /\ violations = {}

\* MockProver::run up to the call of synthesize: configure builds the
\* constraint system and the instance column is loaded.
Configure ==
  /\ pc = "configure"
  /\ cs' = configure
  /\ instance' = LoadInstance(public_input)
  /\ pc' = SynthesizeSteps[1]
  /\ UNCHANGED <<circuit, k, public_input, prover, shape, mutated, was, violations>>

\* One statement of synthesize, in the prover's run and in the run of the
\* circuit without witnesses; an error ends synthesize (the ? operator).
Statement(i) ==
  /\ pc = SynthesizeSteps[i]
  /\ prover' = synthesize(circuit, MyConfig, prover, SynthesizeSteps[i])
  /\ shape' = synthesize(without_witnesses(circuit), MyConfig, shape, SynthesizeSteps[i])
  /\ pc' = IF prover'.layouter.err # "none" THEN "error"
           ELSE IF i < Len(SynthesizeSteps) THEN SynthesizeSteps[i + 1]
           ELSE "synthesized"
  /\ UNCHANGED <<circuit, k, public_input, cs, instance, mutated, was, violations>>

LoadA == Statement(1)

LoadB == Statement(2)

LoadC == Statement(3)

LoadConstant == Statement(4)

MulAA == Statement(5)

MulBC == Statement(6)

AddAABC == Statement(7)

MulD == Statement(8)

ExposeD == Statement(9)

\* The cells of the prover's table that hold a value.
StoredCells ==
  (DOMAIN prover.layouter.advice)
    \cup {Cell("fixed", r) : r \in 0 .. (Len(prover.layouter.fixed) - 1)}
    \cup {Cell("instance", r) : r \in 0 .. (Len(instance) - 1)}

\* The Known values a stored value may be changed to.
OtherValues(old) ==
  {Known(0), Known(1), IF IsKnown(old) THEN Known(FAdd(old[1], 1)) ELSE Known(0)}
    \ {old}

\* The stored value of one cell is changed after synthesis, every other
\* cell left as it was.
MutateCell ==
  /\ pc = "synthesized"
  /\ \E cell \in StoredCells :
       \E v \in OtherValues(CellValue(prover.layouter, instance, cell)) :
         /\ mutated' = {cell}
         /\ was' = CellValue(prover.layouter, instance, cell)
         /\ IF cell[1] = "instance"
            THEN /\ instance' = [instance EXCEPT ![cell[2] + 1] = v]
                 /\ UNCHANGED prover
            ELSE /\ UNCHANGED instance
                 /\ IF cell[1] = "fixed"
                    THEN prover' = [prover EXCEPT !.layouter.fixed[cell[2] + 1] = v]
                    ELSE prover' = [prover EXCEPT !.layouter.advice[cell] = v]
  /\ pc' = "mutated"
  /\ UNCHANGED <<circuit, k, public_input, cs, shape, violations>>

\* MockProver::verify
Verify ==
  /\ pc \in {"synthesized", "mutated"}
  /\ violations' = verify(cs, prover.layouter, instance, public_input)
  /\ pc' = "verified"
  /\ UNCHANGED <<circuit, k, public_input, cs, prover, shape, instance, mutated, was>>

Next ==
  \/ Configure
  \/ LoadA \/ LoadB \/ LoadC \/ LoadConstant
  \/ MulAA \/ MulBC \/ AddAABC \/ MulD \/ ExposeD
  \/ MutateCell
  \/ Verify

Spec == Init /\ [][Next]_vars

(* ------------------ tables filled by an adversary ---------------------- *)

\* The values an adversarial prover writes into the advice cells.
FreeVals == {0, 1}

InitFree ==
  /\ circuit \in [constant : FreeVals, a : {Unknown}, b : {Unknown}, c : {Unknown}]
  /\ k = MainK
  /\ public_input \in {<<p>> : p \in FreeVals}
  /\ pc = "configure"
  /\ cs = EmptyConstraintSystem
  /\ prover = NewRun(k)
  /\ shape = NewRun(k)
  /\ instance = << >>
  /\ mutated = {}
  /\ was = Unknown
  /\ violations = {}

\* Every advice cell synthesize assigned is rewritten with an arbitrary
\* Known value; regions, selectors, copy constraints, the fixed column and
\* the instance column stay as synthesize and run left them.
Forge ==
  /\ pc = "synthesized"
  /\ \E f \in [DOMAIN prover.layouter.advice -> {Known(v) : v \in FreeVals}] :
       prover' = [prover EXCEPT !.layouter.advice = f]
  /\ mutated' = DOMAIN prover.layouter.advice
  /\ pc' = "mutated"
  /\ UNCHANGED <<circuit, k, public_input, cs, shape, instance, was, violations>>

NextFree == Next \/ Forge

SpecFree == InitFree /\ [][NextFree]_vars

(* ------------------------------ claims --------------------------------- *)

Synthesized == pc \in {"synthesized", "mutated", "verified"}

Table == prover.layouter

Stored(col, row) == CellValue(Table, instance, Cell(col, row))

Output == ExpectedOutput(circuit.constant, circuit.a[1], circuit.b[1], circuit.c[1])

MainCircuit ==
  [constant |-> MainConstant, a |-> Known(MainA), b |-> Known(MainB), c |-> Known(MainC)]

ExposedPair == {Cell("advice0", 11), Cell("instance", 0)}

\* C1: with a, b, c Known and the table main asks for, a run against the
\* public input [constant * (a*a + b*c)] ends in verify, never in a
\* synthesis error, and verify reports no violation.
C1_Completeness ==
  (/\ AllKnown(circuit)
   /\ k = MainK
   /\ mutated = {}
   /\ public_input = <<Output>>)
  => /\ pc # "error"
     /\ pc = "verified" => violations = {}

W_C1_MainVerifies ==
  /\ pc = "verified"
  /\ circuit = MainCircuit
  /\ k = MainK
  /\ public_input = <<230>>
  /\ mutated = {}
  /\ Stored("advice0", 11) = Known(230)
  /\ violations = {}

\* C2: with a, b, c Known and a public input that differs from
\* constant * (a*a + b*c), verify reports exactly one violation: the copy
\* constraint between the exposed cell d and instance row 0.
C2_TamperDetected ==
  (/\ pc = "verified"
   /\ AllKnown(circuit)
   /\ mutated = {}
   /\ public_input # <<Output>>)
  => /\ prover.nums.d.cell = Cell("advice0", 11)
     /\ violations = {<<"copy", ExposedPair>>}

W_C2_Main231 ==
  /\ pc = "verified"
  /\ circuit = MainCircuit
  /\ public_input = <<231>>
  /\ mutated = {}
  /\ violations = {<<"copy", ExposedPair>>}

MulHolds(row) ==
  LET lhs == Stored("advice0", row)
      rhs == Stored("advice1", row)
      out == Stored("advice0", row + 1)
  IN /\ IsKnown(lhs) /\ IsKnown(rhs) /\ IsKnown(out)
     /\ out[1] = FMul(lhs[1], rhs[1])

AddHolds(row) ==
  LET lhs == Stored("advice0", row)
      rhs == Stored("advice1", row)
      out == Stored("advice0", row + 1)
  IN /\ IsKnown(lhs) /\ IsKnown(rhs) /\ IsKnown(out)
     /\ out[1] = FAdd(lhs[1], rhs[1])

Rows == 0 .. (Capacity(Table) - 1)

\* C3: after verify, at every row where s_mul is enabled the violation of
\* gate "mul" at that row is reported exactly when
\* advice0[row+1] = advice0[row] * advice1[row] fails; so a table verify
\* accepts satisfies the equality at every s_mul row.
C3_MulGate ==
  pc = "verified" =>
    /\ \A row \in Rows :
         <<"s_mul", row>> \in Table.selectors =>
           (<<"gate", "mul", row>> \in violations <=> ~MulHolds(row))
    /\ violations = {} =>
         \A row \in Rows : <<"s_mul", row>> \in Table.selectors => MulHolds(row)

W_C3_MulRejected ==
  /\ pc = "verified"
  /\ Cardinality(mutated) > 1
  /\ <<"s_mul", 6>> \in Table.selectors
  /\ Stored("advice0", 6) = Known(1)
  /\ Stored("advice1", 6) = Known(1)
  /\ Stored("advice0", 7) = Known(0)
  /\ <<"gate", "mul", 6>> \in violations

\* C4: after verify, at every row where s_add is enabled the violation of
\* gate "add" at that row is reported exactly when
\* advice0[row+1] = advice0[row] + advice1[row] fails, and no violation of
\* gate "add" is reported at a row where s_add is not enabled.
C4_AddGate ==
  pc = "verified" =>
    \A row \in Rows :
      IF <<"s_add", row>> \in Table.selectors
      THEN <<"gate", "add", row>> \in violations <=> ~AddHolds(row)
      ELSE <<"gate", "add", row>> \notin violations

W_C4_AddRejected ==
  /\ pc = "verified"
  /\ Cardinality(mutated) > 1
  /\ <<"s_add", 8>> \in Table.selectors
  /\ Stored("advice0", 8) = Known(1)
  /\ Stored("advice1", 8) = Known(0)
  /\ Stored("advice0", 9) = Known(0)
  /\ <<"gate", "add", 8>> \in violations
  /\ <<"gate", "add", 9>> \notin violations

\* The equality pairs synthesize records: the two copies of each mul / add,
\* the constant and its fixed cell, the exposed cell and instance row 0.
RecordedPairs ==
  {{Cell("advice0", 0), Cell("advice0", 4)}, {Cell("advice0", 0), Cell("advice1", 4)},
   {Cell("advice0", 1), Cell("advice0", 6)}, {Cell("advice0", 2), Cell("advice1", 6)},
   {Cell("advice0", 5), Cell("advice0", 8)}, {Cell("advice0", 7), Cell("advice1", 8)},
   {Cell("advice0", 3), Cell("advice0", 10)}, {Cell("advice0", 9), Cell("advice1", 10)},
   {Cell("advice0", 3), Cell("fixed", 0)},
   ExposedPair}

\* C5 as claimed: when the stored value of one cell is changed after
\* synthesis, verify reports the copy violation of every recorded pair
\* that cell belongs to.
C5_AnyPairFlagged ==
  (pc = "verified" /\ Cardinality(mutated) = 1) =>
    \A pair \in RecordedPairs :
      (mutated \cap pair # {}) => <<"copy", pair>> \in violations

\* C5, amended: synthesize records exactly the pairs above, and when the
\* stored value of one cell is changed after synthesis, verify fails with
\* the copy violation of every recorded pair that cell belongs to and whose
\* other cell holds what the changed cell held before the change.
C5_CopyConstraints ==
  /\ Synthesized => Table.copies = RecordedPairs
  /\ (pc = "verified" /\ Cardinality(mutated) = 1) =>
       \A pair \in RecordedPairs :
         (/\ mutated \cap pair # {}
          /\ \A other \in pair \ mutated : Stored(other[1], other[2]) = was)
         => /\ <<"copy", pair>> \in violations
            /\ violations # {}

W_C5_ConstantMutated ==
  /\ pc = "verified"
  /\ AllKnown(circuit)
  /\ public_input = <<Output>>
  /\ mutated = {Cell("advice0", 3)}
  /\ was = Known(circuit.constant)
  /\ violations = {<<"copy", {Cell("advice0", 3), Cell("fixed", 0)}>>,
                   <<"copy", {Cell("advice0", 3), Cell("advice0", 10)}>>}

\* In a run, the output cell of every mul / add region is Known exactly
\* when both cells of its first row are.
KnownIffInputsKnown(L) ==
  \A i \in DOMAIN L.regions :
    L.regions[i].name \in {"mul", "add"} =>
      LET row == L.regions[i].start IN
      IsKnown(L.advice[Cell("advice0", row + 1)])
        <=> (IsKnown(L.advice[Cell("advice0", row)])
             /\ IsKnown(L.advice[Cell("advice1", row)]))

\* C6: neither the run of the circuit nor the run of
\* circuit.without_witnesses() raises the Synthesis error; the run without
\* witnesses completes whenever the table has room; and the output of every
\* mul / add is Known exactly when both its inputs are.
C6_StructureOnly ==
  /\ prover.layouter.err # "Synthesis"
  /\ shape.layouter.err # "Synthesis"
  /\ Synthesized =>
       /\ shape.layouter.err = "none"
       /\ Len(shape.layouter.regions) = 8
  /\ KnownIffInputsKnown(shape.layouter)
  /\ mutated = {} => KnownIffInputsKnown(prover.layouter)

W_C6_WithoutWitnesses ==
  /\ pc = "synthesized"
  /\ AllKnown(circuit)
  /\ shape.layouter.err = "none"
  /\ shape.nums.d.value = Unknown
  /\ shape.nums.constant.value = Known(0)
  /\ prover.nums.d.value = Known(Output)

\* C7: synthesize claims 3*1 + 1 + 3*2 + 2 rows; run fails, with
\* OutOfRows, exactly when that exceeds 2^k, and never with main's k.
C7_RowCapacity ==
  /\ pc = "error" =>
       /\ prover.layouter.err = "OutOfRows"
       /\ 3 * 1 + 1 + 3 * 2 + 2 > Pow2(k)
  /\ Synthesized =>
       /\ prover.layouter.err = "none"
       /\ prover.layouter.next = 3 * 1 + 1 + 3 * 2 + 2
       /\ 3 * 1 + 1 + 3 * 2 + 2 <= Pow2(k)
  /\ k = MainK => pc # "error"

W_C7_OutOfRows ==
  /\ pc = "error"
  /\ prover.layouter.err = "OutOfRows"
  /\ Pow2(k) = 8
  /\ Len(prover.layouter.regions) = 6

RegionRows(name) == IF name \in {"mul", "add"} THEN 2 ELSE 1

\* The regions of a run follow one another from row 0 without gap or
\* overlap, with 1 row for a load and 2 for a mul / add; no cell is
\* assigned twice; selectors sit only on first rows of mul / add regions.
SequentialLayout(L) ==
  /\ \A i \in DOMAIN L.regions :
       /\ L.regions[i].start =
            (IF i = 1 THEN 0 ELSE L.regions[i - 1].start + L.regions[i - 1].rows)
       /\ L.regions[i].rows = RegionRows(L.regions[i].name)
  /\ \A i, j \in DOMAIN L.assigned : i # j => L.assigned[i] # L.assigned[j]
  /\ \A s \in L.selectors :
       \/ \E i \in DOMAIN L.regions :
            /\ L.regions[i].name \in {"mul", "add"}
            /\ s[1] = (IF L.regions[i].name = "mul" THEN "s_mul" ELSE "s_add")
            /\ s[2] = L.regions[i].start
       \/ (L.err # "none" /\ s[2] = L.next)

\* C8: after every prefix of synthesize the layout is sequential, and the
\* full sequence uses exactly rows 0..11 with the selectors at 4, 6, 8, 10.
C8_SequentialLayout ==
  /\ SequentialLayout(prover.layouter)
  /\ SequentialLayout(shape.layouter)
  /\ Synthesized =>
       /\ {cell[2] : cell \in DOMAIN prover.layouter.advice} = 0 .. 11
       /\ [i \in 1 .. 8 |-> prover.layouter.regions[i].start] = <<0, 1, 2, 3, 4, 6, 8, 10>>
       /\ prover.layouter.selectors =
            {<<"s_mul", 4>>, <<"s_mul", 6>>, <<"s_add", 8>>, <<"s_mul", 10>>}

W_C8_FullLayout ==
  /\ pc = "synthesized"
  /\ Len(prover.layouter.regions) = 8
  /\ Len(prover.layouter.assigned) = 16
  /\ prover.layouter.next = 12

\* C9: a table with synthesize's layout and Known advice values that verify
\* accepts against [p] has p = constant * (a*a + b*c), for a, b, c the
\* values stored in the load_private cells and constant the fixed cell.
C9_Soundness ==
  (/\ pc = "verified"
   /\ violations = {}
   /\ \A cell \in DOMAIN Table.advice : IsKnown(Table.advice[cell]))
  => /\ IsKnown(Stored("fixed", 0))
     /\ public_input[1] =
          ExpectedOutput(Stored("fixed", 0)[1], Stored("advice0", 0)[1],
                         Stored("advice0", 1)[1], Stored("advice0", 2)[1])

W_C9_ForgedAccepted ==
  /\ pc = "verified"
  /\ Cardinality(mutated) > 1
  /\ violations = {}
  /\ Stored("advice0", 0) = Known(0)
  /\ Stored("advice0", 1) = Known(1)
  /\ Stored("advice0", 2) = Known(1)
  /\ Stored("fixed", 0) = Known(1)
  /\ public_input = <<1>>

\* What synthesize fixes of the circuit's structure.
Structure(L) ==
  [regions |-> L.regions, selectors |-> L.selectors, copies |-> L.copies,
   fixed |-> L.fixed]

\* C10: the run of circuit.without_witnesses() produces the same regions,
\* selector rows, copy constraints and fixed column as the run of circuit.
C10_SameStructure ==
  mutated = {} => Structure(shape.layouter) = Structure(prover.layouter)

====
